---- MODULE Spec2Model ----
(***************************************************************************)
(* urlql: the recursive-descent parser (src/src/parser.ts) that turns the   *)
(* token sequence of a filter expression into a Mongo-style filter tree    *)
(* and the per-field operator "insights", together with the conjunction    *)
(* merge (mergeConjunction) it applies when an AND-group closes.            *)
(*                                                                         *)
(* Text (token values, field names, string literals) is a sequence of     *)
(* one-character strings, so that Number(), unescapeString() and the       *)
(* regex-literal slicing are computed on the characters.                   *)
(*                                                                         *)
(* A JS object is a sequence of entries in insertion order.  Field names   *)
(* of the model are not names of Object.prototype members, so `key in obj` *)
(* is own-key membership.                                                  *)
(***************************************************************************)
EXTENDS Integers, Sequences, FiniteSets, TLC

VARIABLES t, pc, i, insights, filter, err

\* parseUrlql: the query text, the segments by class, what handleControls returns;
\* lex: the text it scans and its scan index
VARIABLES raw, controlParts, exprParts, controls, selectInsights, orderInsights, rawExpr, idx

parserVars == <<t, pc, i, insights, filter, err>>

urlVars == <<raw, controlParts, exprParts, controls, selectInsights, orderInsights>>

lexVars == <<rawExpr, idx>>

vars == <<t, pc, i, insights, filter, err, raw, controlParts, exprParts, controls,
          selectInsights, orderInsights, rawExpr, idx>>

(***************************************************************************)
(* Errors.  An error value records the class of the exception and what    *)
(* its message carries: the offending token's text and/or its offset.     *)
(***************************************************************************)
NoError == [kind |-> "none", hasText |-> FALSE, text |-> <<>>, hasPos |-> FALSE, pos |-> 0]

\* new SyntaxError(`... "${tok.value}" at pos ${tok.pos}`)
SyntaxErrorAt(tok) ==
    [kind |-> "SyntaxError", hasText |-> TRUE, text |-> tok.value, hasPos |-> TRUE, pos |-> tok.pos]

\* new SyntaxError(`Invalid between syntax at pos ${tok.pos}`): the offset only
SyntaxErrorPos(tok) ==
    [kind |-> "SyntaxError", hasText |-> FALSE, text |-> <<>>, hasPos |-> TRUE, pos |-> tok.pos]

\* `Unexpected token at pos ${this.t[this.i]?.pos}`: "undefined" when there is no token
SyntaxErrorNoPos ==
    [kind |-> "SyntaxError", hasText |-> FALSE, text |-> <<>>, hasPos |-> FALSE, pos |-> 0]

\* decodeURIComponent on a malformed escape: URIError, no token, no offset
URIError == [kind |-> "URIError", hasText |-> FALSE, text |-> <<>>, hasPos |-> FALSE, pos |-> 0]

\* a property read on undefined: the engine's TypeError, no token, no offset
TypeError == [kind |-> "TypeError", hasText |-> FALSE, text |-> <<>>, hasPos |-> FALSE, pos |-> 0]

(***************************************************************************)
(* Tokens                                                                  *)
(***************************************************************************)
\* this.t[k] for k outside the array
Undefined == [type |-> "undefined", value |-> <<>>, pos |-> 0]

IsUndefined(tok) == tok.type = "undefined"

(***************************************************************************)
(* Literals (Primitive of urlql.ts)                                        *)
(***************************************************************************)
LitNumber(n, e) ==
    [type |-> "number", num |-> n, exp |-> e, str |-> <<>>, flags |-> <<>>, bool |-> FALSE]
LitString(s) ==
    [type |-> "string", num |-> 0, exp |-> 0, str |-> s, flags |-> <<>>, bool |-> FALSE]
LitBool(b) ==
    [type |-> "boolean", num |-> 0, exp |-> 0, str |-> <<>>, flags |-> <<>>, bool |-> b]
LitNull ==
    [type |-> "null", num |-> 0, exp |-> 0, str |-> <<>>, flags |-> <<>>, bool |-> FALSE]
LitRegex(pattern, fl) ==
    [type |-> "regex", num |-> 0, exp |-> 0, str |-> pattern, flags |-> fl, bool |-> FALSE]

Digits == <<"0", "1", "2", "3", "4", "5", "6", "7", "8", "9">>

DigitVal(c) == (CHOOSE d \in 1..10 : Digits[d] = c) - 1

RECURSIVE Pow10(_)
Pow10(n) == IF n = 0 THEN 1 ELSE 10 * Pow10(n - 1)

RECURSIVE DigitsVal(_)
DigitsVal(s) ==
    IF s = <<>> THEN 0 ELSE 10 * DigitsVal(SubSeq(s, 1, Len(s) - 1)) + DigitVal(s[Len(s)])

\* positions of character c in s
IndexesOf(s, c) == {k \in 1..Len(s) : s[k] = c}

RECURSIVE StripTrailingZeros(_)
StripTrailingZeros(s) ==
    IF s /= <<>> /\ s[Len(s)] = "0" THEN StripTrailingZeros(SubSeq(s, 1, Len(s) - 1)) ELSE s

\* Number(tok.value) on the text of a number token: -?int(.frac)?
\* The value is num / 10^exp with no trailing zero in the fraction.
Number(s) ==
    LET neg   == s /= <<>> /\ s[1] = "-"
        body  == IF neg THEN Tail(s) ELSE s
        dots  == IndexesOf(body, ".")
        dot   == IF dots = {} THEN Len(body) + 1 ELSE CHOOSE k \in dots : TRUE
        whole == SubSeq(body, 1, dot - 1)
        frac  == StripTrailingZeros(SubSeq(body, dot + 1, Len(body)))
        mag   == DigitsVal(whole) * Pow10(Len(frac)) + DigitsVal(frac)
    IN  LitNumber(IF neg THEN 0 - mag ELSE mag, Len(frac))

\* str.replace(/(^'|'$)/gu, ''): drops a leading and a trailing quote
unescapeString(str) ==
    LET a == IF str /= <<>> /\ str[1] = "'" THEN Tail(str) ELSE str
    IN  IF a /= <<>> /\ a[Len(a)] = "'" THEN SubSeq(a, 1, Len(a) - 1) ELSE a

\* the flags new RegExp(pattern, flags) accepts: known letters, none twice
RegExpFlags == {"d", "g", "i", "m", "s", "u", "v", "y"}

ValidFlags(fl) ==
    /\ \A k \in 1..Len(fl) : fl[k] \in RegExpFlags
    /\ \A k, l \in 1..Len(fl) : k /= l => fl[k] /= fl[l]
    /\ ~({"u", "v"} \subseteq {fl[k] : k \in 1..Len(fl)})

(***************************************************************************)
(* Filter tree (FilterExpr of urlql.ts)                                    *)
(*   comparison node: kind "cmp", entries = <<[key, val]>> in key order    *)
(*   logical node:    kind "$and" / "$or", list = the operands             *)
(* A value under a field is a bare literal (prim) or an operator object    *)
(* ops = <<[op, isList, items]>>; a scalar operand is items of length 1.   *)
(***************************************************************************)
EmptyObject == [kind |-> "cmp", entries |-> <<>>, list |-> <<>>]

Logical(k, nodes) == [kind |-> k, entries |-> <<>>, list |-> nodes]

PrimVal(lit) == [prim |-> TRUE, lit |-> lit, ops |-> <<>>]

OpsVal(ops) == [prim |-> FALSE, lit |-> LitNull, ops |-> ops]

OpEntry(op, lit) == [op |-> op, isList |-> FALSE, items |-> <<lit>>]

OpList(op, lits) == [op |-> op, isList |-> TRUE, items |-> lits]

\* key in obj  (entries keyed by "key" or by "op")
HasKey(entries, k) == \E n \in 1..Len(entries) : entries[n].key = k

KeyIndex(entries, k) == CHOOSE n \in 1..Len(entries) : entries[n].key = k

\* obj[k]
Get(entries, k) == entries[KeyIndex(entries, k)].val

\* obj[k] = v : an existing key keeps its place, a new key goes last
Put(entries, k, v) ==
    IF HasKey(entries, k)
    THEN [entries EXCEPT ![KeyIndex(entries, k)] = [key |-> k, val |-> v]]
    ELSE Append(entries, [key |-> k, val |-> v])

HasOp(ops, o) == \E n \in 1..Len(ops) : ops[n].op = o

OpIndex(ops, o) == CHOOSE n \in 1..Len(ops) : ops[n].op = o

\* opsObj[o] = e.items
PutOp(ops, e) ==
    IF HasOp(ops, e.op) THEN [ops EXCEPT ![OpIndex(ops, e.op)] = e] ELSE Append(ops, e)

\* { [field]: value }
Single(field, val) == [kind |-> "cmp", entries |-> <<[key |-> field, val |-> val]>>, list |-> <<>>]

(***************************************************************************)
(* class Parser: the object is [t, i, insights]; a method call yields      *)
(* [p, ret, thrown]: the object after the call, the returned value and the *)
(* exception thrown (NoError when it returned).                            *)
(***************************************************************************)
\* const v = e; K(v): the value of e is computed once and named
With(e, K(_)) == CHOOSE y \in {K(v) : v \in {e}} : TRUE

\* trail is the history of the cursor: the values this.i has taken, in order
NewParser(toks) == [t |-> toks, i |-> 0, insights |-> <<>>, trail |-> <<0>>]

Return(p, v) == [p |-> p, ret |-> v, thrown |-> NoError]

Throw(p, e) == [p |-> p, ret |-> FALSE, thrown |-> e]

Thrown(r) == r.thrown.kind /= "none"

\* this.t[k] (0-based)
At(p, k) == IF k >= 0 /\ k < Len(p.t) THEN p.t[k + 1] ELSE Undefined

peek(p, offset) == At(p, p.i + offset)

\* consume(type): type "" is the call without argument
consume(p, type) ==
    LET tok == At(p, p.i)
        q   == [p EXCEPT !.i = @ + 1, !.trail = Append(@, p.i + 1)]
    IN  IF type /= "" /\ IsUndefined(tok) THEN Throw(q, TypeError)
        ELSE IF type /= "" /\ tok.type /= type THEN Throw(q, SyntaxErrorAt(tok))
        ELSE Return(q, tok)

match(p, type) ==
    IF peek(p, 0).type = type THEN Return(consume(p, "").p, TRUE) ELSE Return(p, FALSE)

\* a faulty variant of expectEof: leftover tokens are let through
expectEofAlways(p) == Return(p, TRUE)

expectEof(p) ==
    IF p.i /= Len(p.t)
    THEN Throw(p, IF IsUndefined(At(p, p.i)) THEN SyntaxErrorNoPos ELSE SyntaxErrorPos(At(p, p.i)))
    ELSE Return(p, TRUE)

\* the Set's add: a tag already present stays where it is
SetAdd(set, x) == IF \E n \in 1..Len(set) : set[n] = x THEN set ELSE Append(set, x)

captureInsights(p, field, op) ==
    LET m == IF HasKey(p.insights, field) THEN p.insights ELSE Put(p.insights, field, <<>>)
    IN  [p EXCEPT !.insights = Put(m, field, SetAdd(Get(m, field), op))]

RECURSIVE captureAll(_, _, _)
captureAll(p, fields, op) ==
    IF fields = <<>> THEN p
    ELSE With(captureInsights(p, Head(fields), op), LAMBDA q : captureAll(q, Tail(fields), op))

\* tok.value.lastIndexOf('/') (1-based here)
LastSlash(s) == CHOOSE k \in IndexesOf(s, "/") : \A l \in IndexesOf(s, "/") : l <= k

parseLiteral(p) ==
    LET c   == consume(p, "")
        tok == c.ret
    IN  IF IsUndefined(tok) THEN Throw(c.p, TypeError)
        ELSE CASE tok.type = "number"  -> Return(c.p, Number(tok.value))
               [] tok.type = "boolean" -> Return(c.p, LitBool(tok.value = <<"t", "r", "u", "e">>))
               [] tok.type = "null"    -> Return(c.p, LitNull)
               [] tok.type = "regex"   ->
                    LET pattern == SubSeq(tok.value, 2, LastSlash(tok.value) - 1)
                        fl      == SubSeq(tok.value, LastSlash(tok.value) + 1, Len(tok.value))
                    IN  IF ValidFlags(fl) THEN Return(c.p, LitRegex(pattern, fl))
                        ELSE Throw(c.p, SyntaxErrorNoPos)
               [] tok.type = "word"    -> Return(c.p, LitString(tok.value))
               [] tok.type = "string"  -> Return(c.p, LitString(unescapeString(tok.value)))
               [] OTHER                -> Throw(c.p, SyntaxErrorAt(tok))

\* opMap[type]; "" is undefined
opMap(type) ==
    CASE type = "op-eq"    -> "$eq"
      [] type = "op-ne"    -> "$ne"
      [] type = "op-gt"    -> "$gt"
      [] type = "op-gte"   -> "$gte"
      [] type = "op-lt"    -> "$lt"
      [] type = "op-lte"   -> "$lte"
      [] type = "op-regex" -> "$regex"
      [] OTHER             -> ""

\* a faulty variant of buildExists: every field gets { $exists: true }
RECURSIVE buildExistsAlways(_, _)
buildExistsAlways(fields, positive) ==
    IF fields = <<>> THEN EmptyObject
    ELSE LET out == buildExistsAlways(SubSeq(fields, 1, Len(fields) - 1), positive)
         IN  [out EXCEPT !.entries =
                 Put(@, fields[Len(fields)], OpsVal(<<OpEntry("$exists", LitBool(TRUE))>>))]

RECURSIVE buildExists(_, _)
buildExists(fields, positive) ==
    IF fields = <<>> THEN EmptyObject
    ELSE LET out == buildExists(SubSeq(fields, 1, Len(fields) - 1), positive)
         IN  [out EXCEPT !.entries =
                 Put(@, fields[Len(fields)], OpsVal(<<OpEntry("$exists", LitBool(positive))>>))]

isPrimitive(val) == val.prim

(***************************************************************************)
(* mergeConjunction.  The loop state is [merged, currentMerge].            *)
(***************************************************************************)
\* Object.keys(v) of an operator object
OpKeys(val) == [n \in 1..Len(val.ops) |-> val.ops[n].op]

\* new Set('$eq'): a Set built from a string holds its characters
SetOfEqString == <<"$", "e", "q">>

\* isPrimitive(v) ? v : v[op]
OpOperand(val, o) ==
    IF isPrimitive(val) THEN OpEntry(o, val.lit)
    ELSE [val.ops[OpIndex(val.ops, o)] EXCEPT !.op = o]

RECURSIVE CopyOps(_, _, _)
CopyOps(ops, keys, from) ==
    IF keys = <<>> THEN ops
    ELSE With(PutOp(ops, OpOperand(from, Head(keys))), LAMBDA ops2 : CopyOps(ops2, Tail(keys), from))

\* a faulty variant of MergeEntry: any second constraint on a field is a conflict
MergeEntryAlwaysFlush(st, key, val) ==
    IF HasKey(st.currentMerge.entries, key)
    THEN [merged |-> Append(st.merged, st.currentMerge), currentMerge |-> EmptyObject]
    ELSE [st EXCEPT !.currentMerge.entries = Put(@, key, val)]

\* one [key, val] of Object.entries(node)
MergeEntry(st, key, val) ==
    IF HasKey(st.currentMerge.entries, key)
    THEN LET currentVal == Get(st.currentMerge.entries, key)
             currentOps == IF isPrimitive(currentVal) THEN <<"$eq">> ELSE OpKeys(currentVal)
             otherOps   == IF isPrimitive(val) THEN SetOfEqString ELSE OpKeys(val)
             intersects == \E a \in 1..Len(currentOps) : \E b \in 1..Len(otherOps) :
                               currentOps[a] = otherOps[b]
         IN  IF intersects
             THEN [merged |-> Append(st.merged, st.currentMerge), currentMerge |-> EmptyObject]
             ELSE [st EXCEPT !.currentMerge.entries =
                      Put(@, key, OpsVal(CopyOps(CopyOps(<<>>, currentOps, currentVal),
                                                 otherOps, val)))]
    ELSE [st EXCEPT !.currentMerge.entries = Put(@, key, val)]

RECURSIVE MergeEntries(_, _)
MergeEntries(st, entries) ==
    IF entries = <<>> THEN st
    ELSE With(MergeEntry(st, Head(entries).key, Head(entries).val),
              LAMBDA st2 : MergeEntries(st2, Tail(entries)))

\* a faulty variant of MergeNode: a logical sibling flushes the accumulator first
MergeNodeFlushFirst(st, node) ==
    IF node.kind \in {"$or", "$and"}
    THEN [merged |-> (IF Len(st.currentMerge.entries) > 0
                      THEN Append(st.merged, st.currentMerge) ELSE st.merged) \o <<node>>,
          currentMerge |-> EmptyObject]
    ELSE MergeEntries(st, node.entries)

MergeNode(st, node) ==
    IF node.kind \in {"$or", "$and"}
    THEN [st EXCEPT !.merged = Append(@, node)]
    ELSE MergeEntries(st, node.entries)

RECURSIVE MergeNodes(_, _)
MergeNodes(st, nodes) ==
    IF nodes = <<>> THEN st
    ELSE With(MergeNode(st, Head(nodes)), LAMBDA st2 : MergeNodes(st2, Tail(nodes)))

\* the returned value; isNull stands for null
mergeConjunction(nodes) ==
    With(MergeNodes([merged |-> <<>>, currentMerge |-> EmptyObject], nodes), LAMBDA st :
    With(IF Len(st.currentMerge.entries) > 0
         THEN Append(st.merged, st.currentMerge) ELSE st.merged, LAMBDA merged :
        IF Len(merged) > 1 THEN [isNull |-> FALSE, node |-> Logical("$and", merged)]
        ELSE IF Len(merged) = 1 THEN [isNull |-> FALSE, node |-> merged[1]]
        ELSE [isNull |-> TRUE, node |-> EmptyObject]))

(***************************************************************************)
(* Grammar methods.  Bind(r, K) runs the rest of a method, K, on the       *)
(* result r of a call unless the call threw, in which case the exception   *)
(* propagates.                                                             *)
(***************************************************************************)
Bind(r, K(_)) == With(r, LAMBDA v : IF Thrown(v) THEN v ELSE K(v))

\* a property read (.type, .pos) on a returned token: a TypeError on undefined
Defined(r) == IF ~Thrown(r) /\ IsUndefined(r.ret) THEN Throw(r.p, TypeError) ELSE r

RECURSIVE parseDisjunction(_), parseConjunction(_), parseTerm(_)
RECURSIVE orLoop(_, _), andLoop(_, _)

\* fields.push(this.consume('word').value) while a comma follows
RECURSIVE existsFields(_, _)
existsFields(p, fields) ==
    Bind(consume(p, "word"), LAMBDA w :
    Bind(match(w.p, "comma"), LAMBDA m :
        IF m.ret THEN existsFields(m.p, Append(fields, w.ret.value))
        ELSE Return(m.p, Append(fields, w.ret.value))))

\* list.push(this.parseLiteral()) while a comma follows
RECURSIVE literalList(_, _)
literalList(p, list) ==
    Bind(parseLiteral(p), LAMBDA l :
    Bind(match(l.p, "comma"), LAMBDA m :
        IF m.ret THEN literalList(m.p, Append(list, l.ret))
        ELSE Return(m.p, Append(list, l.ret))))

\* lines 145-151: the operator's tag, the insight, the node
comparisonNode(p, field, opTok, lit) ==
    IF opMap(opTok.type) = "" THEN Throw(p, SyntaxErrorAt(opTok))
    ELSE Return(captureInsights(p, field, opMap(opTok.type)),
                IF opMap(opTok.type) = "$eq" THEN Single(field, PrimVal(lit))
                ELSE Single(field, OpsVal(<<OpEntry(opMap(opTok.type), lit)>>)))

\* comparison   path op lit
parseComparison(p) ==
    Bind(consume(p, "word"), LAMBDA fieldTok :
    Bind(consume(fieldTok.p, ""), LAMBDA opTok :
    Bind(parseLiteral(opTok.p), LAMBDA lit :
        comparisonNode(lit.p, fieldTok.ret.value, opTok.ret, lit.ret))))

\* a faulty variant of listNode: the bang is read the wrong way round
listNodeNegated(p, field, negate, list) ==
    Return(captureInsights(p, field, IF negate THEN "$in" ELSE "$nin"),
           Single(field, OpsVal(<<OpList(IF negate THEN "$in" ELSE "$nin", list)>>)))

\* lines 134-138
listNode(p, field, negate, list) ==
    Return(captureInsights(p, field, IF negate THEN "$nin" ELSE "$in"),
           Single(field, OpsVal(<<OpList(IF negate THEN "$nin" ELSE "$in", list)>>)))

\* IN / NIN list   word {!} { lit , lit }
parseList(p) ==
    Bind(consume(p, "word"), LAMBDA fieldTok :
    Bind(match(fieldTok.p, "bang"), LAMBDA negate :
    Bind(consume(negate.p, "lbrace"), LAMBDA lb :
    Bind(literalList(lb.p, <<>>), LAMBDA list :
    Bind(consume(list.p, "rbrace"), LAMBDA rb :
        listNode(rb.p, fieldTok.ret.value, negate.ret, list.ret))))))

ExistsText == <<"$", "e", "x", "i", "s", "t", "s">>

NotExistsText == <<"$", "!", "e", "x", "i", "s", "t", "s">>

\* $exists / $!exists, entered on one of the two keywords
parseExists(p) ==
    Bind(consume(p, "keyword"), LAMBDA kwTok :
    Bind(consume(kwTok.p, "op-eq"), LAMBDA eq :
    Bind(existsFields(eq.p, <<>>), LAMBDA fields :
        Return(captureAll(fields.p, fields.ret, "$exists"),
               buildExists(fields.ret, kwTok.ret.value = ExistsText)))))

\* parseTerm from the exists test on (lines 106-152)
parseTermRest(p) ==
    IF peek(p, 0).type = "keyword" /\ peek(p, 0).value \in {ExistsText, NotExistsText}
    THEN parseExists(p)
    ELSE IF \/ peek(p, 0).type = "word" /\ peek(p, 1).type = "lbrace"
            \/ peek(p, 1).type = "bang" /\ peek(p, 2).type = "lbrace"
         THEN parseList(p)
         ELSE parseComparison(p)

\* a faulty variant of betweenNode: each bound takes the other operator's strictness
betweenNodeSwapped(p, field, firstOp, secondOp, lhsLit, rhsLit) ==
    LET op1 == IF secondOp = "op-lt" THEN "$gt" ELSE "$gte"
        op2 == IF firstOp = "op-lt" THEN "$lt" ELSE "$lte"
    IN  Return(captureInsights(captureInsights(p, field, op1), field, op2),
               Single(field, OpsVal(<<OpEntry(op1, lhsLit), OpEntry(op2, rhsLit)>>)))

\* lines 93-102
betweenNode(p, field, firstOp, secondOp, lhsLit, rhsLit) ==
    LET op1 == IF firstOp = "op-lt" THEN "$gt" ELSE "$gte"
        op2 == IF secondOp = "op-lt" THEN "$lt" ELSE "$lte"
    IN  Return(captureInsights(captureInsights(p, field, op1), field, op2),
               Single(field, OpsVal(<<OpEntry(op1, lhsLit), OpEntry(op2, rhsLit)>>)))

\* a faulty variant of parseBetween: the cursor is not rewound to the literal
parseBetweenNoRewind(p) ==
    Bind(parseLiteral(p), LAMBDA lhsLit :
    Bind(Defined(consume(lhsLit.p, "")), LAMBDA firstOp :
        IF firstOp.ret.type \notin {"op-lt", "op-lte"}
        THEN parseTermRest(firstOp.p)
        ELSE Bind(consume(firstOp.p, "word"), LAMBDA field :
             Bind(Defined(consume(field.p, "")), LAMBDA secondOpTok :
                 IF secondOpTok.ret.type \notin {"op-lt", "op-lte"}
                 THEN Throw(secondOpTok.p, SyntaxErrorPos(secondOpTok.ret))
                 ELSE Bind(parseLiteral(secondOpTok.p), LAMBDA rhsLit :
                          betweenNode(rhsLit.p, field.ret.value, firstOp.ret.type,
                                      secondOpTok.ret.type, lhsLit.ret, rhsLit.ret))))))

\* a faulty variant of parseBetween: the cursor is rewound by one token only
parseBetweenRewindOne(p) ==
    Bind(parseLiteral(p), LAMBDA lhsLit :
    Bind(Defined(consume(lhsLit.p, "")), LAMBDA firstOp :
        IF firstOp.ret.type \notin {"op-lt", "op-lte"}
        THEN parseTermRest([firstOp.p EXCEPT !.i = @ - 1, !.trail = Append(@, firstOp.p.i - 1)])
        ELSE Bind(consume(firstOp.p, "word"), LAMBDA field :
             Bind(Defined(consume(field.p, "")), LAMBDA secondOpTok :
                 IF secondOpTok.ret.type \notin {"op-lt", "op-lte"}
                 THEN Throw(secondOpTok.p, SyntaxErrorPos(secondOpTok.ret))
                 ELSE Bind(parseLiteral(secondOpTok.p), LAMBDA rhsLit :
                          betweenNode(rhsLit.p, field.ret.value, firstOp.ret.type,
                                      secondOpTok.ret.type, lhsLit.ret, rhsLit.ret))))))

\* BETWEEN: literal (<|<=) path (<|<=) literal, entered on a number or string token
parseBetween(p) ==
    Bind(parseLiteral(p), LAMBDA lhsLit :
    Bind(Defined(consume(lhsLit.p, "")), LAMBDA firstOp :
        IF firstOp.ret.type \notin {"op-lt", "op-lte"}
        THEN parseTermRest([firstOp.p EXCEPT !.i = @ - 2, !.trail = Append(@, firstOp.p.i - 2)])
        ELSE Bind(consume(firstOp.p, "word"), LAMBDA field :
             Bind(Defined(consume(field.p, "")), LAMBDA secondOpTok :
                 IF secondOpTok.ret.type \notin {"op-lt", "op-lte"}
                 THEN Throw(secondOpTok.p, SyntaxErrorPos(secondOpTok.ret))
                 ELSE Bind(parseLiteral(secondOpTok.p), LAMBDA rhsLit :
                          betweenNode(rhsLit.p, field.ret.value, firstOp.ret.type,
                                      secondOpTok.ret.type, lhsLit.ret, rhsLit.ret))))))

\* a faulty variant of parseTerm: a group holds a Conjunction, not a Disjunction
parseTermGroupConjunction(p) ==
    Bind(match(p, "lparen"), LAMBDA lp :
        IF lp.ret
        THEN Bind(parseConjunction(lp.p), LAMBDA inside :
             Bind(consume(inside.p, "rparen"), LAMBDA rp : Return(rp.p, inside.ret)))
        ELSE IF IsUndefined(peek(p, 0)) THEN Throw(p, TypeError)
        ELSE IF peek(p, 0).type \in {"number", "string"} THEN parseBetween(p)
        ELSE parseTermRest(p))

parseTerm(p) ==
    Bind(match(p, "lparen"), LAMBDA lp :
        IF lp.ret
        THEN Bind(parseDisjunction(lp.p), LAMBDA inside :
             Bind(consume(inside.p, "rparen"), LAMBDA rp : Return(rp.p, inside.ret)))
        ELSE IF IsUndefined(peek(p, 0)) THEN Throw(p, TypeError)
        ELSE IF peek(p, 0).type \in {"number", "string"} THEN parseBetween(p)
        ELSE parseTermRest(p))

\* a faulty variant of andLoop: what follows & is a whole Disjunction
andLoopDisjunction(p, nodes) ==
    Bind(match(p, "and"), LAMBDA m :
        IF m.ret
        THEN Bind(parseDisjunction(m.p), LAMBDA term : andLoop(term.p, Append(nodes, term.ret)))
        ELSE Return(m.p, nodes))

\* while (this.match('and')) nodes.push(this.parseTerm())
andLoop(p, nodes) ==
    Bind(match(p, "and"), LAMBDA m :
        IF m.ret
        THEN Bind(parseTerm(m.p), LAMBDA term : andLoop(term.p, Append(nodes, term.ret)))
        ELSE Return(m.p, nodes))

\* a faulty variant of closeConjunction: the terms are never merged
closeConjunctionNoMerge(p, nodes, merged) ==
    IF Len(nodes) = 1 THEN Return(p, nodes[1]) ELSE Return(p, Logical("$and", nodes))

\* lines 63-67
closeConjunction(p, nodes, merged) ==
    IF Len(nodes) = 1 THEN Return(p, nodes[1])
    ELSE Return(p, IF merged.isNull THEN Logical("$and", nodes) ELSE merged.node)

parseConjunction(p) ==
    Bind(parseTerm(p), LAMBDA first :
    Bind(andLoop(first.p, <<first.ret>>), LAMBDA nodes :
        closeConjunction(nodes.p, nodes.ret, mergeConjunction(nodes.ret))))

\* a faulty variant of orLoop: what follows ^ is one Term
orLoopTerm(p, orNodes) ==
    Bind(match(p, "or"), LAMBDA m :
        IF m.ret
        THEN Bind(parseTerm(m.p), LAMBDA conj : orLoop(conj.p, Append(orNodes, conj.ret)))
        ELSE Return(m.p, orNodes))

\* while (this.match('or')) orNodes.push(this.parseConjunction())
orLoop(p, orNodes) ==
    Bind(match(p, "or"), LAMBDA m :
        IF m.ret
        THEN Bind(parseConjunction(m.p), LAMBDA conj : orLoop(conj.p, Append(orNodes, conj.ret)))
        ELSE Return(m.p, orNodes))

\* a faulty variant of parseDisjunction: a single Conjunction is wrapped too
parseDisjunctionWrap(p) ==
    Bind(parseConjunction(p), LAMBDA node :
    Bind(orLoop(node.p, <<node.ret>>), LAMBDA orNodes :
        Return(orNodes.p, Logical("$or", orNodes.ret))))

parseDisjunction(p) ==
    Bind(parseConjunction(p), LAMBDA node :
    Bind(orLoop(node.p, <<node.ret>>), LAMBDA orNodes :
        Return(orNodes.p, IF Len(orNodes.ret) = 1 THEN node.ret
                          ELSE Logical("$or", orNodes.ret))))

parseExpression(p) == parseDisjunction(p)

(***************************************************************************)
(* The token table and lex (tokens.ts).  A rule is a function from the     *)
(* text at the scan position to the length of its match, 0 for no match    *)
(* (no rule matches the empty text).                                       *)
(***************************************************************************)
DigitChars == {Digits[d] : d \in 1..10}

LowerChars == {"a", "b", "c", "d", "e", "f", "g", "h", "i", "j", "k", "l", "m", "n", "o", "p", "q", "r", "s", "t", "u", "v", "w", "x", "y", "z"}

UpperChars == {"A", "B", "C", "D", "E", "F", "G", "H", "I", "J", "K", "L", "M", "N", "O", "P", "Q", "R", "S", "T", "U", "V", "W", "X", "Y", "Z"}

\* [A-Za-z0-9_]
KeywordChars == LowerChars \cup UpperChars \cup DigitChars \cup {"_"}

\* [A-Za-z0-9_.]
WordChars == KeywordChars \cup {"."}

\* \s, as far as the texts of the model go
Whitespace == {" ", "\t", "\n", "\r"}

\* [&^)=><!]
Specials == {"&", "^", ")", "=", ">", "<", "!"}

\* the last index of the run of characters of C that starts at k; k - 1 if none
RECURSIVE RunEnd(_, _, _)
RunEnd(s, k, C) == IF k <= Len(s) /\ s[k] \in C THEN RunEnd(s, k + 1, C) ELSE k - 1

\* the same for the characters outside C
RECURSIVE RunEndNot(_, _, _)
RunEndNot(s, k, C) == IF k <= Len(s) /\ s[k] \notin C THEN RunEndNot(s, k + 1, C) ELSE k - 1

\* (?:\\.|[^\\d])*d from index k: the index of the closing delimiter d, 0 if none
RECURSIVE BodyEnd(_, _, _)
BodyEnd(s, k, d) ==
    IF k > Len(s) THEN 0
    ELSE IF s[k] = "\\"
         THEN IF k + 1 <= Len(s) /\ s[k + 1] \notin {"\n", "\r"} THEN BodyEnd(s, k + 2, d) ELSE 0
         ELSE IF s[k] = d THEN k ELSE BodyEnd(s, k + 1, d)

\* /^\/(?:\\.|[^\\/])*\/[imsux]*/
matchRegex(s) ==
    IF s[1] /= "/" \/ BodyEnd(s, 2, "/") = 0 THEN 0
    ELSE RunEnd(s, BodyEnd(s, 2, "/") + 1, {"i", "m", "s", "u", "x"})

\* /^'(?:\\.|[^'\\])*'/
matchQuoted(s) == IF s[1] /= "'" THEN 0 ELSE BodyEnd(s, 2, "'")

\* (?:\.\d+)?(?!\d) after the integer part that ends at e
FractionEnd(s, e) ==
    IF e + 2 <= Len(s) /\ s[e + 1] = "." /\ s[e + 2] \in DigitChars
    THEN RunEnd(s, e + 2, DigitChars) ELSE e

\* /^-?(?:0(?!\d)|[1-9]\d*)(?:\.\d+)?(?!\d)/
matchNumber(s) ==
    LET k == IF s[1] = "-" THEN 2 ELSE 1
    IN  IF k > Len(s) THEN 0
        ELSE IF s[k] = "0"
             THEN IF k + 1 <= Len(s) /\ s[k + 1] \in DigitChars THEN 0 ELSE FractionEnd(s, k)
             ELSE IF s[k] \in DigitChars THEN FractionEnd(s, RunEnd(s, k, DigitChars))
             ELSE 0

\* a rule that is one fixed text
matchText(s, text) ==
    IF Len(s) >= Len(text) /\ SubSeq(s, 1, Len(text)) = text THEN Len(text) ELSE 0

\* /^\$!?[A-Za-z0-9_]+/
matchKeyword(s) ==
    LET k == IF Len(s) >= 2 /\ s[2] = "!" THEN 3 ELSE 2
    IN  IF s[1] = "$" /\ RunEnd(s, k, KeywordChars) >= k THEN RunEnd(s, k, KeywordChars) ELSE 0

\* /^(?:[^&^)\s=><!]+(?:\s|\+)+[^&^)=><!]*)+/ : the first run must be followed by
\* whitespace, or give back characters down to a + it holds; the match then runs
\* to the first of [&^)=><!]
matchUnquoted(s) ==
    LET run == RunEndNot(s, 1, Specials \cup Whitespace)
    IN  IF /\ run >= 1
           /\ \/ run < Len(s) /\ s[run + 1] \in Whitespace
              \/ \E k \in 2..run : s[k] = "+"
        THEN RunEndNot(s, 1, Specials) ELSE 0

\* /^[A-Za-z0-9_.]+/
matchWord(s) == RunEnd(s, 1, WordChars)

\* /^[\\s]+/ : the class holds the backslash and the letter s
matchWs(s) == RunEnd(s, 1, {"\\", "s"})

\* the types of the rules, in the order of the table
tokens ==
    <<"regex", "string", "number", "boolean", "boolean", "null",
      "op-ne", "op-gte", "op-lte", "op-regex", "op-eq", "op-gt", "op-lt",
      "or", "and", "lparen", "rparen", "lbrace", "rbrace", "comma", "bang",
      "keyword", "string", "word", "ws">>

\* r.exec(slice) for the n-th rule
matchRule(n, s) ==
    CASE n = 1  -> matchRegex(s)
      [] n = 2  -> matchQuoted(s)
      [] n = 3  -> matchNumber(s)
      [] n = 4  -> matchText(s, <<"t", "r", "u", "e">>)
      [] n = 5  -> matchText(s, <<"f", "a", "l", "s", "e">>)
      [] n = 6  -> matchText(s, <<"n", "u", "l", "l">>)
      [] n = 7  -> matchText(s, <<"!", "=">>)
      [] n = 8  -> matchText(s, <<">", "=">>)
      [] n = 9  -> matchText(s, <<"<", "=">>)
      [] n = 10 -> matchText(s, <<"~", "=">>)
      [] n = 11 -> matchText(s, <<"=">>)
      [] n = 12 -> matchText(s, <<">">>)
      [] n = 13 -> matchText(s, <<"<">>)
      [] n = 14 -> matchText(s, <<"^">>)
      [] n = 15 -> matchText(s, <<"&">>)
      [] n = 16 -> matchText(s, <<"(">>)
      [] n = 17 -> matchText(s, <<")">>)
      [] n = 18 -> matchText(s, <<"{">>)
      [] n = 19 -> matchText(s, <<"}">>)
      [] n = 20 -> matchText(s, <<",">>)
      [] n = 21 -> matchText(s, <<"!">>)
      [] n = 22 -> matchKeyword(s)
      [] n = 23 -> matchUnquoted(s)
      [] n = 24 -> matchWord(s)
      [] n = 25 -> matchWs(s)

\* new SyntaxError(`Unexpected char '${input[idx]}' at ${idx} --- ${input}`)
LexError(input, at) ==
    [kind |-> "SyntaxError", hasText |-> TRUE, text |-> <<input[at + 1]>>, hasPos |-> TRUE, pos |-> at]

\* one iteration of while (idx < input.length), on [input, idx, tokensOut, thrown]
lexIteration(st) ==
    With(SubSeq(st.input, st.idx + 1, Len(st.input)), LAMBDA slice :
    With({n \in 1..Len(tokens) : matchRule(n, slice) > 0}, LAMBDA matches :
        IF matches = {} THEN [st EXCEPT !.thrown = LexError(st.input, st.idx)]
        ELSE LET n == CHOOSE m \in matches : \A o \in matches : m <= o
                 l == matchRule(n, slice)
             IN  [st EXCEPT !.idx = @ + l,
                            !.tokensOut = IF tokens[n] = "ws" THEN @
                                          ELSE Append(@, [type |-> tokens[n],
                                                          value |-> SubSeq(slice, 1, l),
                                                          pos |-> st.idx])]))

RECURSIVE lexLoop(_)
lexLoop(st) ==
    IF st.idx < Len(st.input) /\ st.thrown.kind = "none" THEN lexLoop(lexIteration(st)) ELSE st

\* lex(input): [tokensOut, thrown]
lex(input) == lexLoop([input |-> input, idx |-> 0, tokensOut |-> <<>>, thrown |-> NoError])

(***************************************************************************)
(* parseUrlql and handleControls (urlql.ts)                                *)
(***************************************************************************)
\* the escapes %XX of the model's texts and the characters they stand for
Escapes ==
    << [hex |-> <<"2", "5">>, char |-> "%"], [hex |-> <<"2", "6">>, char |-> "&"],
       [hex |-> <<"2", "C">>, char |-> ","], [hex |-> <<"3", "D">>, char |-> "="],
       [hex |-> <<"4", "1">>, char |-> "A"] >>

\* decodeURIComponent(s): [ok, text]; a % that no escape follows is a URIError
RECURSIVE decodeURIComponent(_)
decodeURIComponent(s) ==
    IF s = <<>> THEN [ok |-> TRUE, text |-> <<>>]
    ELSE IF Head(s) /= "%"
         THEN With(decodeURIComponent(Tail(s)),
                   LAMBDA r : [ok |-> r.ok, text |-> <<Head(s)>> \o r.text])
         ELSE IF Len(s) >= 3 /\ \E n \in 1..Len(Escapes) : Escapes[n].hex = SubSeq(s, 2, 3)
              THEN LET e == CHOOSE n \in 1..Len(Escapes) : Escapes[n].hex = SubSeq(s, 2, 3)
                   IN  With(decodeURIComponent(SubSeq(s, 4, Len(s))),
                            LAMBDA r : [ok |-> r.ok, text |-> <<Escapes[e].char>> \o r.text])
              ELSE [ok |-> FALSE, text |-> <<>>]

\* s.split(c)
RECURSIVE split(_, _)
split(s, c) ==
    IF IndexesOf(s, c) = {} THEN <<s>>
    ELSE With(CHOOSE n \in IndexesOf(s, c) : \A m \in IndexesOf(s, c) : n <= m,
              LAMBDA k : With(SubSeq(s, k + 1, Len(s)),
                              LAMBDA rest : <<SubSeq(s, 1, k - 1)>> \o split(rest, c)))

\* parts.join(c)
RECURSIVE join(_, _)
join(parts, c) ==
    IF parts = <<>> THEN <<>>
    ELSE IF Len(parts) = 1 THEN parts[1]
    ELSE parts[1] \o <<c>> \o join(Tail(parts), c)

startsWith(s, prefix) == Len(s) >= Len(prefix) /\ SubSeq(s, 1, Len(prefix)) = prefix

\* /^\$[A-Za-z0-9_!]+/.test(p) && !p.startsWith('$exists=') && !p.startsWith('$!exists=')
IsControlPart(p) ==
    /\ Len(p) >= 2 /\ p[1] = "$" /\ p[2] \in KeywordChars \cup {"!"}
    /\ ~startsWith(p, ExistsText \o <<"=">>)
    /\ ~startsWith(p, NotExistsText \o <<"=">>)

\* lines 89-93 on [controlParts, exprParts, thrown]
classifyPart(st, part) ==
    With(decodeURIComponent(part), LAMBDA p :
        IF ~p.ok THEN [st EXCEPT !.thrown = URIError]
        ELSE IF IsControlPart(p.text) THEN [st EXCEPT !.controlParts = Append(@, p.text)]
        ELSE IF Len(p.text) > 0 THEN [st EXCEPT !.exprParts = Append(@, p.text)]
        ELSE st)

RECURSIVE classifyParts(_, _)
classifyParts(st, parts) ==
    IF parts = <<>> \/ st.thrown.kind /= "none" THEN st
    ELSE With(classifyPart(st, Head(parts)), LAMBDA st2 : classifyParts(st2, Tail(parts)))

\* the values of controls: a text, a number, true, or an object of field -> number
CtlText(s) == [kind |-> "text", text |-> s, num |-> LitNull, obj |-> <<>>]

CtlNumber(n) == [kind |-> "number", text |-> <<>>, num |-> n, obj |-> <<>>]

CtlTrue == [kind |-> "true", text |-> <<>>, num |-> LitNull, obj |-> <<>>]

CtlObject(entries) == [kind |-> "object", text |-> <<>>, num |-> LitNull, obj |-> entries]

\* NaN
LitNaN == [type |-> "NaN", num |-> 0, exp |-> 0, str |-> <<>>, flags |-> <<>>, bool |-> FALSE]

\* Number(value) of a control: the texts of the model are digit strings (the empty
\* one is 0) or hold a letter (NaN)
ControlNumber(value) ==
    IF \A k \in 1..Len(value) : value[k] \in DigitChars THEN LitNumber(DigitsVal(value), 0)
    ELSE LitNaN

SelectKey == <<"$", "s", "e", "l", "e", "c", "t">>

SortKey == <<"$", "s", "o", "r", "t">>

OrderKey == <<"$", "o", "r", "d", "e", "r">>

LimitKey == <<"$", "l", "i", "m", "i", "t">>

TopKey == <<"$", "t", "o", "p">>

SkipKey == <<"$", "s", "k", "i", "p">>

CountKey == <<"$", "c", "o", "u", "n", "t">>

\* f.replace(/^-/, '') and f.slice(1) of a field that starts with -
stripMinus(f) == IF f /= <<>> /\ Head(f) = "-" THEN Tail(f) ELSE f

\* the body of value.split(',').forEach on [obj, set]; minus is the number a field
\* with a leading - gets ($select: 0, $sort: -1)
listField(st, f, minus) ==
    IF f = <<>> THEN st
    ELSE [obj |-> Put(st.obj, stripMinus(f), IF Head(f) = "-" THEN minus ELSE 1),
          set |-> SetAdd(st.set, stripMinus(f))]

RECURSIVE listFields(_, _, _)
listFields(st, fields, minus) ==
    IF fields = <<>> THEN st
    ELSE With(listField(st, Head(fields), minus), LAMBDA st2 : listFields(st2, Tail(fields), minus))

\* controls[key] ??= {} and the forEach over the listed fields
listControl(ctl, key, set, value, minus) ==
    listFields([obj |-> IF HasKey(ctl, key) THEN Get(ctl, key).obj ELSE <<>>, set |-> set],
               split(value, ","), minus)

\* the switch of handleControls on [controls, selectInsights, orderInsights, thrown]
switchControl(hc, key, value) ==
    CASE key = SelectKey ->
            [hc EXCEPT !.controls = Put(@, SelectKey,
                            CtlObject(listControl(hc.controls, SelectKey, hc.selectInsights, value, 0).obj)),
                       !.selectInsights = listControl(hc.controls, SelectKey, @, value, 0).set]
      [] key \in {SortKey, OrderKey} ->
            [hc EXCEPT !.controls = Put(@, SortKey,
                            CtlObject(listControl(hc.controls, SortKey, hc.orderInsights, value, -1).obj)),
                       !.orderInsights = listControl(hc.controls, SortKey, @, value, -1).set]
      [] key \in {LimitKey, TopKey} -> [hc EXCEPT !.controls = Put(@, LimitKey, CtlNumber(ControlNumber(value)))]
      [] key = SkipKey -> [hc EXCEPT !.controls = Put(@, SkipKey, CtlNumber(ControlNumber(value)))]
      [] key = CountKey -> [hc EXCEPT !.controls = Put(@, CountKey, CtlTrue)]
      [] OTHER -> [hc EXCEPT !.controls = Put(@, key, CtlText(value))]

\* const [key, ...rest] = raw.split('='); rest.join('=')
controlKey(part) == split(part, "=")[1]

controlRest(part) == join(Tail(split(part, "=")), "=")

\* the body of for (const raw of parts)
handleControl(hc, part) ==
    With(decodeURIComponent(controlRest(part)), LAMBDA value :
        IF ~value.ok THEN [hc EXCEPT !.thrown = URIError]
        ELSE switchControl(hc, controlKey(part), value.text))

RECURSIVE handleControlsLoop(_, _)
handleControlsLoop(hc, parts) ==
    IF parts = <<>> \/ hc.thrown.kind /= "none" THEN hc
    ELSE With(handleControl(hc, Head(parts)), LAMBDA hc2 : handleControlsLoop(hc2, Tail(parts)))

handleControls(parts) ==
    handleControlsLoop([controls |-> <<>>, selectInsights |-> <<>>, orderInsights |-> <<>>,
                        thrown |-> NoError], parts)

(***************************************************************************)
(* Inputs: the token sequences the parser is run on.  A token is first     *)
(* written without its offset; lex gives the offsets.                      *)
(***************************************************************************)
MaxTerms == 3

MaxListLen == 2

MaxJunkLen == 3

Tk(type, value) == [type |-> type, value |-> value]

\* lex: pos is the scan index at which the token starts, idx += m[0].length
RECURSIVE lexPositions(_, _)
lexPositions(pre, at) ==
    IF pre = <<>> THEN <<>>
    ELSE <<[type |-> Head(pre).type, value |-> Head(pre).value, pos |-> at]>>
         \o lexPositions(Tail(pre), at + Len(Head(pre).value))

FieldNames == << <<"a">>, <<"b", "b">>, <<"c", ".", "d">> >>

OpTok(type) ==
    CASE type = "op-eq"    -> Tk(type, <<"=">>)
      [] type = "op-ne"    -> Tk(type, <<"!", "=">>)
      [] type = "op-gt"    -> Tk(type, <<">">>)
      [] type = "op-gte"   -> Tk(type, <<">", "=">>)
      [] type = "op-lt"    -> Tk(type, <<"<">>)
      [] type = "op-lte"   -> Tk(type, <<"<", "=">>)
      [] type = "op-regex" -> Tk(type, <<"~", "=">>)

OpTypes == {"op-eq", "op-ne", "op-gt", "op-gte", "op-lt", "op-lte", "op-regex"}

And == Tk("and", <<"&">>)
Or == Tk("or", <<"^">>)
LParen == Tk("lparen", <<"(">>)
RParen == Tk("rparen", <<")">>)
LBrace == Tk("lbrace", <<"{">>)
RBrace == Tk("rbrace", <<"}">>)
Comma == Tk("comma", <<",">>)
Bang == Tk("bang", <<"!">>)
KwExists == Tk("keyword", <<"$", "e", "x", "i", "s", "t", "s">>)
KwNotExists == Tk("keyword", <<"$", "!", "e", "x", "i", "s", "t", "s">>)
KwOther == Tk("keyword", <<"$", "f", "o", "o">>)
Num1 == Tk("number", <<"1">>)
Num25 == Tk("number", <<"2", "5">>)
NumDec == Tk("number", <<"-", "1", ".", "5", "0">>)
WordX == Tk("word", <<"x">>)
Word007 == Tk("word", <<"0", "0", "7">>)
Quoted == Tk("string", <<"'", "x", "'">>)
Unquoted == Tk("string", <<"x", " ", "y">>)
True == Tk("boolean", <<"t", "r", "u", "e">>)
Null == Tk("null", <<"n", "u", "l", "l">>)
Regex == Tk("regex", <<"/", "^", "x", "/", "i">>)
RegexBadFlag == Tk("regex", <<"/", "x", "/", "x">>)

\* the place of the field in a term template
Fld == Tk("field", <<>>)

Subst(template, f) ==
    [k \in 1..Len(template) |->
        IF template[k].type = "field" THEN Tk("word", f) ELSE template[k]]

AllLits == {Num1, Num25, NumDec, WordX, Word007, Quoted, Unquoted, True, Null, Regex, RegexBadFlag}

FewLits == {Num1, Num25, WordX}

CmpT(op, lit) == <<Fld, OpTok(op), lit>>

BetT(l, o1, o2, r) == <<l, OpTok(o1), Fld, OpTok(o2), r>>

RECURSIVE CommaJoin(_)
CommaJoin(items) ==
    IF Len(items) <= 1 THEN items ELSE <<Head(items), Comma>> \o CommaJoin(Tail(items))

ListT(neg, lits) ==
    <<Fld>> \o (IF neg THEN <<Bang>> ELSE <<>>) \o <<LBrace>> \o CommaJoin(lits) \o <<RBrace>>

ExT(kw, more) == <<kw, OpTok("op-eq"), Fld>> \o more

SeqsUpTo(S, n) == UNION {[1..k -> S] : k \in 1..n}

\* terms of a one-term expression
FullTemplates ==
    {CmpT(op, lit) : op \in OpTypes, lit \in AllLits}
    \cup {BetT(l, o1, o2, r) : l \in {Num1, Quoted, True, WordX}, o1 \in {"op-lt", "op-lte"},
                              o2 \in {"op-lt", "op-lte"}, r \in {Num25, WordX}}
    \cup {ListT(neg, lits) : neg \in BOOLEAN, lits \in SeqsUpTo({Num1, WordX}, MaxListLen)}
    \cup {ExT(kw, more) : kw \in {KwExists, KwNotExists},
                          more \in {<<>>, <<Comma, Tk("word", <<"z">>)>>, <<Comma, Fld>>}}

\* terms of a two-term expression
MediumTemplates ==
    {CmpT(op, lit) : op \in OpTypes, lit \in FewLits}
    \cup {BetT(Num1, o, o, Num25) : o \in {"op-lt", "op-lte"}}
    \cup {ListT(neg, <<Num1, WordX>>) : neg \in BOOLEAN}
    \cup {ExT(KwExists, <<>>), ExT(KwNotExists, <<Comma, Tk("word", <<"z">>)>>)}

\* terms of a longer expression
SmallTemplates ==
    {CmpT("op-eq", Num1), CmpT("op-eq", WordX), CmpT("op-gt", Num25),
     BetT(Num1, "op-lt", "op-lte", Num25), ListT(FALSE, <<Num1>>), ExT(KwExists, <<>>)}

\* terms of the longest expressions
FewTemplates == {CmpT("op-eq", Num1), CmpT("op-gt", Num25), ExT(KwExists, <<>>)}

TemplatesFor(n) ==
    IF n = 1 THEN FullTemplates
    ELSE IF n = 2 THEN MediumTemplates
    ELSE IF n = 3 THEN SmallTemplates
    ELSE FewTemplates

\* which field each term names, up to renaming the fields: the first term names
\* field 1, a later term a field already named or the next one
FieldPatterns(n) ==
    {fp \in [1..n -> 1..Len(FieldNames)] :
        /\ fp[1] = 1
        /\ \A k \in 2..n : \E j \in 1..(k - 1) : fp[k] <= fp[j] + 1}

\* the terms gs..ge stand in parentheses; <<0, 0>> is no group
Groups(n) ==
    {<<0, 0>>} \cup {g \in (1..n) \X (1..n) : g[1] <= g[2] /\ (n >= 3 => g[2] - g[1] = 1)}

RECURSIVE ExprTokens(_, _, _, _, _)
ExprTokens(tm, fp, conn, g, k) ==
    IF k > Len(tm) THEN <<>>
    ELSE (IF k > 1 THEN <<conn[k - 1]>> ELSE <<>>)
         \o (IF g[1] = k THEN <<LParen>> ELSE <<>>)
         \o Subst(tm[k], FieldNames[fp[k]])
         \o (IF g[2] = k THEN <<RParen>> ELSE <<>>)
         \o ExprTokens(tm, fp, conn, g, k + 1)

Exprs(n) ==
    {ExprTokens(tm, fp, conn, g, 1) :
        tm \in [1..n -> TemplatesFor(n)], fp \in FieldPatterns(n),
        conn \in [1..(n - 1) -> {And, Or}], g \in Groups(n)}

\* the expressions of 1..n terms
RECURSIVE ExprsUpTo(_)
ExprsUpTo(n) == IF n = 0 THEN {} ELSE ExprsUpTo(n - 1) \cup Exprs(n)

WellFormed == ExprsUpTo(MaxTerms)

\* a conjunction of two terms and a parenthesised disjunction of two terms, the
\* group standing first, in the middle or last
GroupedConjunctions ==
    {ExprTokens(tm, fp, [k \in 1..3 |-> IF k = g[1] THEN Or ELSE And], g, 1) :
        tm \in [1..4 -> FewTemplates], fp \in FieldPatterns(4),
        g \in {<<1, 2>>, <<2, 3>>, <<3, 4>>}}

JunkTokens ==
    {OpTok(op) : op \in OpTypes}
    \cup {And, Or, LParen, RParen, LBrace, RBrace, Comma, Bang, KwExists, KwOther,
          Num1, WordX, Quoted, True, Regex}

FewJunkTokens == {OpTok("op-eq"), OpTok("op-lt"), And, LParen, RParen, LBrace, Num1, WordX}

Junk == UNION {[1..k -> IF k <= 3 THEN JunkTokens ELSE FewJunkTokens] : k \in 1..MaxJunkLen}

\* the expressions that are cut short, lose a token or have a token twice
Damaged ==
    LET base == Exprs(1) \cup {ExprTokens(tm, fp, conn, g, 1) :
                    tm \in [1..2 -> SmallTemplates], fp \in FieldPatterns(2),
                    conn \in [1..1 -> {And, Or}], g \in Groups(2)}
    IN  UNION {{SubSeq(e, 1, k) : k \in 1..(Len(e) - 1)}
               \cup {SubSeq(e, 1, k - 1) \o SubSeq(e, k + 1, Len(e)) : k \in 1..Len(e)}
               \cup {SubSeq(e, 1, k) \o SubSeq(e, k, Len(e)) : k \in 1..Len(e)} : e \in base}

\* lex would not give a then b for the text of a followed by the text of b: a rule
\* earlier in the token table, or the rule of a itself, matches across the seam
Glued(a, b) ==
    \/ /\ a.type \in {"word", "keyword"}
       /\ b.type \in {"word", "boolean", "null", "number", "string"}
       /\ Head(b.value) \notin {"-", "'"}
    \/ a.type = "number" /\ b.type = "number" /\ Head(b.value) /= "-"
    \/ a.type \in {"op-lt", "op-gt", "bang"} /\ b.type = "op-eq"
    \/ a.type = "regex" /\ Head(b.value) \in {"i", "m", "s", "u", "x"}
    \/ /\ a.type = "string" /\ Head(a.value) /= "'"
       /\ Head(b.value) \notin {"&", "^", ")", "=", ">", "<", "!"}

\* the token sequences lex returns for the text they spell
IsLexOutput(pre) == \A k \in 1..(Len(pre) - 1) : ~Glued(pre[k], pre[k + 1])

Inputs == {pre \in WellFormed \cup GroupedConjunctions \cup Junk \cup Damaged : IsLexOutput(pre)}

(***************************************************************************)
(* parseUrlql on a filter expression: lex, parseExpression, expectEof.     *)
(***************************************************************************)
\* the text a token sequence is lexed from
RECURSIVE Spell(_)
Spell(toks) == IF toks = <<>> THEN <<>> ELSE Head(toks).value \o Spell(Tail(toks))

\* a query without control segments, lexed: rawExpr is the text of the tokens
Init ==
    /\ t \in {lexPositions(pre, 0) : pre \in Inputs}
    /\ rawExpr = Spell(t)
    /\ idx = Len(rawExpr)
    /\ raw = rawExpr
    /\ controlParts = <<>>
    /\ exprParts = <<rawExpr>>
    /\ controls = <<>>
    /\ selectInsights = <<>>
    /\ orderInsights = <<>>
    /\ pc = "parse"
    /\ i = 0
    /\ insights = <<>>
    /\ filter = EmptyObject
    /\ err = NoError

\* exprFilter = parser.parseExpression()
ParseExpression ==
    /\ pc = "parse"
    /\ \E r \in {parseExpression(NewParser(t))} :
           /\ i' = r.p.i
           /\ insights' = r.p.insights
           /\ IF Thrown(r)
              THEN /\ pc' = "threw"
                   /\ err' = r.thrown
                   /\ filter' = filter
              ELSE /\ pc' = "eof"
                   /\ err' = err
                   /\ filter' = r.ret
    /\ UNCHANGED <<t, urlVars, lexVars>>

\* parser.expectEof(); result.filter = exprFilter
ExpectEof ==
    /\ pc = "eof"
    /\ LET r == expectEof([t |-> t, i |-> i, insights |-> insights, trail |-> <<i>>])
       IN  IF Thrown(r)
           THEN /\ pc' = "threw"
                /\ err' = r.thrown
                /\ filter' = EmptyObject
           ELSE /\ pc' = "done"
                /\ err' = err
                /\ filter' = filter
    /\ UNCHANGED <<t, i, insights, urlVars, lexVars>>

Next == ParseExpression \/ ExpectEof

Spec == Init /\ [][Next]_vars

(***************************************************************************)
(* parseUrlql on a query text: split, handleControls, lex, parseExpression,*)
(* expectEof, the $select / $order insights.                               *)
(***************************************************************************)
MaxParts == 2

MaxLitLen == 4

MaxTextLen == 4

\* the texts of length 1..n over an alphabet
Texts(alphabet, n) == UNION {[1..k -> alphabet] : k \in 1..n}

\* top-level segments: controls, custom controls, escapes, comparisons, exists
Segments ==
    {<<"$", "s", "e", "l", "e", "c", "t", "=", "a", ",", "-", "b">>,
     <<"$", "s", "e", "l", "e", "c", "t", "=", "b">>,
     <<"$", "s", "e", "l", "e", "c", "t", "=", ",", "a">>,
     <<"$", "o", "r", "d", "e", "r", "=", "-", "a">>,
     <<"$", "s", "o", "r", "t", "=", "b", ",", "a">>,
     <<"$", "l", "i", "m", "i", "t", "=", "1", "0">>,
     <<"$", "t", "o", "p", "=", "5">>,
     <<"$", "s", "k", "i", "p", "=", "x">>,
     <<"$", "s", "k", "i", "p", "=">>,
     <<"$", "c", "o", "u", "n", "t">>,
     <<"$", "f", "o", "o", "=", "b", "a", "r">>,
     <<"$", "f", "o", "o", "=", "a", "=", "b">>,
     <<"$", "f", "o", "o", "=", "1", "0", "0", "%", "2", "5">>,
     <<"$", "f", "o", "o", "=", "%", "2", "5", "4", "1">>,
     <<"$", "f", "o", "o">>,
     <<"$", "s", "e", "l", "e", "c", "t", "=", "a", "%", "2", "C", "b">>,
     <<"$", "e", "x", "i", "s", "t", "s", "=", "a">>,
     <<"$", "!", "e", "x", "i", "s", "t", "s", "=", "b">>,
     <<"a", "=", "1">>,
     <<"b", ">", "2">>,
     <<"1", "<", "a", "<", "2">>,
     <<"2", "5", "=", "a">>,
     <<"a", "=", "%", "4", "1">>,
     <<"%">>,
     <<>>,
     <<"a", "=", "1", "%", "2", "6", "b", "=", "2">>,
     <<"$", "o", "r", "d", "e", "r", "=", "a", "%", "2", "5", "4", "1">>}

RECURSIVE JoinedSegments(_)
JoinedSegments(n) ==
    IF n = 1 THEN Segments
    ELSE {q \o <<"&">> \o sg : q \in JoinedSegments(n - 1), sg \in Segments}

ControlQueries == UNION {JoinedSegments(n) : n \in 1..MaxParts}

\* a=lit for the literals written with digits, sign and dot, and the fixed ones
FixedLiterals ==
    {<<"t", "r", "u", "e">>,
     <<"f", "a", "l", "s", "e">>,
     <<"n", "u", "l", "l">>,
     <<"'", "2", "5", "'">>,
     <<"'", "t", "r", "u", "e", "'">>,
     <<"'", "n", "u", "l", "l", "'">>,
     <<"'", "'">>,
     <<"2", "5">>,
     <<"0", "0", "7">>,
     <<"-", "0", "0", "7">>,
     <<"0", "0", ".", "5">>,
     <<"-", "1", "2", ".", "3", "4">>}

LiteralQueries ==
    {<<"a", "=">> \o lit : lit \in Texts({"-", "0", "7", "2", "."}, MaxLitLen) \cup FixedLiterals}

\* texts with blanks, backslashes and the letter s
WhitespaceQueries == Texts({"a", "=", "1", " ", "\t", "\\", "s"}, MaxTextLen)

Queries == ControlQueries \cup LiteralQueries \cup WhitespaceQueries

UrlInit ==
    /\ raw \in Queries
    /\ pc = "split"
    /\ controlParts = <<>>
    /\ exprParts = <<>>
    /\ controls = <<>>
    /\ selectInsights = <<>>
    /\ orderInsights = <<>>
    /\ rawExpr = <<>>
    /\ idx = 0
    /\ t = <<>>
    /\ i = 0
    /\ insights = <<>>
    /\ filter = EmptyObject
    /\ err = NoError

\* lines 84-93: raw.split('&'), decodeURIComponent, the two classes of segments
SplitParts ==
    /\ pc = "split"
    /\ \E st \in {classifyParts([controlParts |-> <<>>, exprParts |-> <<>>, thrown |-> NoError],
                                 split(raw, "&"))} :
           IF st.thrown.kind /= "none"
           THEN /\ pc' = "threw"
                /\ err' = st.thrown
                /\ UNCHANGED <<controlParts, exprParts>>
           ELSE /\ pc' = "controls"
                /\ err' = err
                /\ controlParts' = st.controlParts
                /\ exprParts' = st.exprParts
    /\ UNCHANGED <<raw, controls, selectInsights, orderInsights, lexVars, t, i, insights, filter>>

\* lines 97-106 and 111-113: handleControls(controlParts); rawExpr = exprParts.join('&')
\* or, without expression segments, new Parser([])
HandleControls ==
    /\ pc = "controls"
    /\ \E hc \in {handleControls(controlParts)} :
           IF hc.thrown.kind /= "none"
           THEN /\ pc' = "threw"
                /\ err' = hc.thrown
                /\ UNCHANGED <<controls, selectInsights, orderInsights, rawExpr>>
           ELSE /\ pc' = IF exprParts /= <<>> THEN "lex" ELSE "done"
                /\ err' = err
                /\ controls' = hc.controls
                /\ selectInsights' = hc.selectInsights
                /\ orderInsights' = hc.orderInsights
                /\ rawExpr' = join(exprParts, "&")
    /\ UNCHANGED <<raw, controlParts, exprParts, idx, t, i, insights, filter>>

\* one iteration of the loop of lex(rawExpr); new Parser(tokens) when it ends
LexStep ==
    /\ pc = "lex"
    /\ \E st \in {lexIteration([input |-> rawExpr, idx |-> idx, tokensOut |-> t,
                                  thrown |-> NoError])} :
           IF st.thrown.kind /= "none"
           THEN /\ pc' = "threw"
                /\ err' = st.thrown
                /\ UNCHANGED <<t, idx>>
           ELSE /\ pc' = IF st.idx < Len(rawExpr) THEN "lex" ELSE "parse"
                /\ err' = err
                /\ t' = st.tokensOut
                /\ idx' = st.idx
    /\ UNCHANGED <<urlVars, rawExpr, i, insights, filter>>

\* lines 114-125: the $select and $order insights, result.insights, result.filter
ReturnResult ==
    /\ pc = "done"
    /\ pc' = "returned"
    /\ insights' = captureAll(captureAll([t |-> t, i |-> i, insights |-> insights, trail |-> <<i>>],
                                         selectInsights, "$select"),
                              orderInsights, "$order").insights
    /\ UNCHANGED <<t, i, filter, err, urlVars, lexVars>>

UrlNext == SplitParts \/ HandleControls \/ LexStep \/ ParseExpression \/ ExpectEof \/ ReturnResult

UrlSpec == UrlInit /\ [][UrlNext]_vars

\* parseUrlql is one synchronous call: a step that can be taken is taken
UrlFairSpec == UrlSpec /\ WF_vars(UrlNext)

(***************************************************************************)
(* Vocabulary of the properties                                            *)
(***************************************************************************)
\* a token sequence parsed on its own, up to and including expectEof
ParseAlone(toks) ==
    LET r == Bind(parseExpression(NewParser(toks)), LAMBDA e : expectEof(e.p))
        n == parseExpression(NewParser(toks))
    IN  [ok |-> ~Thrown(r), node |-> IF Thrown(n) THEN EmptyObject ELSE n.ret]

NodeOf(toks) == ParseAlone(toks).node

\* the pieces of toks between the tokens of type sep
RECURSIVE SplitAt(_, _)
SplitAt(toks, sep) ==
    LET at == {k \in 1..Len(toks) : toks[k].type = sep}
        k  == CHOOSE m \in at : \A l \in at : m <= l
    IN  IF at = {} THEN <<toks>>
        ELSE <<SubSeq(toks, 1, k - 1)>> \o SplitAt(SubSeq(toks, k + 1, Len(toks)), sep)

HasType(toks, types) == \E k \in 1..Len(toks) : toks[k].type \in types

\* one comparison, between, membership or exists term
IsAtomicTerm(toks) ==
    /\ toks /= <<>>
    /\ ~HasType(toks, {"and", "or", "lparen", "rparen"})
    /\ ParseAlone(toks).ok

\* path op lit
IsComparison(toks) ==
    /\ Len(toks) = 3
    /\ toks[1].type = "word"
    /\ toks[2].type \in OpTypes
    /\ ParseAlone(toks).ok

Keys(node) == {node.entries[k].key : k \in 1..Len(node.entries)}

RECURSIVE ConcatEntries(_)
ConcatEntries(nodes) ==
    IF nodes = <<>> THEN <<>> ELSE Head(nodes).entries \o ConcatEntries(Tail(nodes))

\* the one object that holds the entries of all the nodes, in order
Flat(nodes) == [kind |-> "cmp", entries |-> ConcatEntries(nodes), list |-> <<>>]

PairwiseDistinctFields(segs) ==
    \A a, b \in 1..Len(segs) : a /= b => Keys(NodeOf(segs[a])) \cap Keys(NodeOf(segs[b])) = {}

\* the (field, operator tag, operand) constraints of a tree; a bare literal is $eq
ValConstraints(e) ==
    IF e.val.prim THEN {<<e.key, "$eq", [isList |-> FALSE, items |-> <<e.val.lit>>]>>}
    ELSE {<<e.key, e.val.ops[k].op, [isList |-> e.val.ops[k].isList, items |-> e.val.ops[k].items]>> :
             k \in 1..Len(e.val.ops)}

RECURSIVE TreeConstraints(_)
TreeConstraints(node) ==
    IF node.kind = "cmp" THEN UNION {ValConstraints(node.entries[k]) : k \in 1..Len(node.entries)}
    ELSE UNION {TreeConstraints(node.list[k]) : k \in 1..Len(node.list)}

Parsed == pc \in {"eof", "done"}

AndTerms == SplitAt(t, "and")

OrParts == SplitAt(t, "or")

\* A & B & ... : atomic terms joined by & only
IsConjunctionOfAtoms ==
    /\ Len(AndTerms) >= 2
    /\ \A k \in 1..Len(AndTerms) : IsAtomicTerm(AndTerms[k])

(***************************************************************************)
(* C1                                                                      *)
(***************************************************************************)
\* two siblings that set the same field with operator objects sharing a tag
IsTagConflict ==
    /\ Len(AndTerms) = 2
    /\ IsConjunctionOfAtoms
    /\ \E e1 \in ValConstraints(NodeOf(AndTerms[1]).entries[1]) :
       \E e2 \in ValConstraints(NodeOf(AndTerms[2]).entries[1]) :
           e1[1] = e2[1] /\ e1[2] = e2[2] /\ e1[2] /= "$eq"

IsEqEq ==
    /\ Len(t) = 7
    /\ t[4].type = "and"
    /\ IsComparison(SubSeq(t, 1, 3)) /\ IsComparison(SubSeq(t, 5, 7))
    /\ t[2].type = "op-eq" /\ t[6].type = "op-eq"
    /\ t[1].value = t[5].value
    /\ NodeOf(SubSeq(t, 1, 3)) /= NodeOf(SubSeq(t, 5, 7))

\* C2: f=X&f=Y with X /= Y yields {$and:[{f:X},{f:Y}]}, two single-field objects.
C2_ConflictSplit ==
    (pc = "done" /\ IsEqEq) =>
        filter = Logical("$and", <<NodeOf(SubSeq(t, 1, 3)), NodeOf(SubSeq(t, 5, 7))>>)

(***************************************************************************)
(* C3                                                                      *)
(***************************************************************************)
InsightsHas(f, tag) ==
    /\ HasKey(insights, f)
    /\ \E n \in 1..Len(Get(insights, f)) : Get(insights, f)[n] = tag

\* C3: after a successful parse, every operator tag stored under a field of the
\* returned tree (a bare literal counting as $eq) is in the insights of the field.
C3_TrackerComplete ==
    pc = "done" => \A c \in TreeConstraints(filter) : InsightsHas(c[1], c[2])

(***************************************************************************)
(* C4                                                                      *)
(***************************************************************************)
\* the length of the input text
InputLength == IF t = <<>> THEN 0 ELSE t[Len(t)].pos + Len(t[Len(t)].value)

\* C4: every failing parse raises a SyntaxError that carries the offending token's
\* text and a character offset within the input.
C4_ErrorLocality ==
    pc = "threw" =>
        /\ err.kind = "SyntaxError"
        /\ err.hasText
        /\ err.hasPos /\ err.pos >= 0 /\ err.pos < InputLength

(***************************************************************************)
(* C5                                                                      *)
(***************************************************************************)
\* A^B&C: three comparisons on distinct fields
IsAOrBAndC ==
    /\ Len(t) = 11
    /\ t[4].type = "or" /\ t[8].type = "and"
    /\ IsComparison(SubSeq(t, 1, 3)) /\ IsComparison(SubSeq(t, 5, 7)) /\ IsComparison(SubSeq(t, 9, 11))
    /\ Cardinality({t[1].value, t[5].value, t[9].value}) = 3

\* C5: & binds tighter than ^: A^B&C on distinct fields parses to {$or:[A, M]},
\* M the one flat object that holds B and C.
C5_AndBindsTighter ==
    IsAOrBAndC =>
        /\ pc /= "threw"
        /\ Parsed => filter = Logical("$or", <<NodeOf(SubSeq(t, 1, 3)),
                                              Flat(<<NodeOf(SubSeq(t, 5, 7)), NodeOf(SubSeq(t, 9, 11))>>)>>)

C5_Witness ==
    /\ pc = "done" /\ IsAOrBAndC
    /\ t[2].type = "op-gt" /\ t[6].type = "op-gt" /\ t[10].type = "op-eq"
    /\ Len(filter.list) = 2 /\ Len(filter.list[2].entries) = 2

(***************************************************************************)
(* C6                                                                      *)
(***************************************************************************)
\* A & B ^ C with atomic terms A, B, C
IsAAndBOrC ==
    /\ Len(OrParts) = 2
    /\ Len(SplitAt(OrParts[1], "and")) = 2
    /\ \A k \in 1..2 : IsAtomicTerm(SplitAt(OrParts[1], "and")[k])
    /\ IsAtomicTerm(OrParts[2])

TermA == SplitAt(OrParts[1], "and")[1]

TermB == SplitAt(OrParts[1], "and")[2]

\* C6 as stated: A & B ^ C is the disjunction of (A) and (the conjunction of B and C).
C6_AsStated ==
    (pc = "done" /\ IsAAndBOrC) =>
        filter = Logical("$or", <<NodeOf(TermA), NodeOf(TermB \o <<And>> \o OrParts[2])>>)

\* C6 (amended): A & B ^ C is the disjunction of (the conjunction of A and B, the
\* tree A & B parses to on its own) and (C).
C6_Precedence ==
    IsAAndBOrC =>
        /\ pc /= "threw"
        /\ Parsed => filter = Logical("$or", <<NodeOf(OrParts[1]), NodeOf(OrParts[2])>>)

C6_Witness ==
    /\ pc = "done" /\ IsAAndBOrC
    /\ Keys(NodeOf(TermA)) /= Keys(NodeOf(TermB))
    /\ Len(filter.list) = 2 /\ Len(filter.list[1].entries) = 2

(***************************************************************************)
(* C7                                                                      *)
(***************************************************************************)
\* (A&B)^C: comparisons on distinct fields
IsGroupedLeft ==
    /\ Len(t) = 13
    /\ t[1].type = "lparen" /\ t[5].type = "and" /\ t[9].type = "rparen" /\ t[10].type = "or"
    /\ IsComparison(SubSeq(t, 2, 4)) /\ IsComparison(SubSeq(t, 6, 8)) /\ IsComparison(SubSeq(t, 11, 13))
    /\ Cardinality({t[2].value, t[6].value, t[11].value}) = 3

\* A&(B^C): comparisons on distinct fields
IsGroupedRight ==
    /\ Len(t) = 13
    /\ t[4].type = "and" /\ t[5].type = "lparen" /\ t[9].type = "or" /\ t[13].type = "rparen"
    /\ IsComparison(SubSeq(t, 1, 3)) /\ IsComparison(SubSeq(t, 6, 8)) /\ IsComparison(SubSeq(t, 10, 12))
    /\ Cardinality({t[1].value, t[6].value, t[10].value}) = 3

\* C7: parentheses override precedence: (A&B)^C yields {$or:[flat object of A and B, C]}
\* and A&(B^C) yields the $and of {$or:[B,C]} and A.
C7_GroupingOverrides ==
    /\ IsGroupedLeft =>
          /\ pc /= "threw"
          /\ Parsed => filter = Logical("$or", <<Flat(<<NodeOf(SubSeq(t, 2, 4)), NodeOf(SubSeq(t, 6, 8))>>),
                                                NodeOf(SubSeq(t, 11, 13))>>)
    /\ IsGroupedRight =>
          /\ pc /= "threw"
          /\ Parsed => filter = Logical("$and", <<Logical("$or", <<NodeOf(SubSeq(t, 6, 8)),
                                                                 NodeOf(SubSeq(t, 10, 12))>>),
                                                 NodeOf(SubSeq(t, 1, 3))>>)

C7_Witness == pc = "done" /\ IsGroupedRight /\ filter.kind = "$and" /\ filter.list[1].kind = "$or"

(***************************************************************************)
(* C8                                                                      *)
(***************************************************************************)
IsDistinctConjunction == IsConjunctionOfAtoms /\ PairwiseDistinctFields(AndTerms)

IsRangePair ==
    /\ Len(t) = 7
    /\ t[4].type = "and"
    /\ IsComparison(SubSeq(t, 1, 3)) /\ IsComparison(SubSeq(t, 5, 7))
    /\ t[1].value = t[5].value
    /\ t[2].type /= "op-eq" /\ t[6].type /= "op-eq" /\ t[2].type /= t[6].type

\* C9: two comparisons on one field with different non-equality operators merge into
\* the single object {f:{op1:X, op2:Y}}; f>=X&f<=Y gives {f:{$gte:X,$lte:Y}}.
C9_RangeMerge ==
    IsRangePair =>
        /\ pc /= "threw"
        /\ Parsed => filter = Single(t[1].value,
                         OpsVal(NodeOf(SubSeq(t, 1, 3)).entries[1].val.ops
                                \o NodeOf(SubSeq(t, 5, 7)).entries[1].val.ops))

C9_Witness ==
    /\ pc = "done" /\ IsRangePair
    /\ t[2].type = "op-gte" /\ t[6].type = "op-lte"
    /\ OpKeys(filter.entries[1].val) = <<"$gte", "$lte">>

(***************************************************************************)
(* C10                                                                     *)
(***************************************************************************)
\* the value parseLiteral gives a token, when it gives one
IsLiteral(tok) == ~Thrown(parseLiteral(NewParser(<<tok>>)))

LitOf(tok) == parseLiteral(NewParser(<<tok>>)).ret

\* the token kinds of literals
LiteralKinds == {"regex", "string", "number", "boolean", "null"}

\* L op1 f op2 R
IsBetweenShape ==
    /\ Len(t) = 5
    /\ t[1].type \in LiteralKinds
    /\ IsLiteral(t[1]) /\ IsLiteral(t[5])
    /\ t[2].type \in {"op-lt", "op-lte"} /\ t[4].type \in {"op-lt", "op-lte"}
    /\ t[3].type = "word"

BetweenResult ==
    LET lo == IF t[2].type = "op-lt" THEN "$gt" ELSE "$gte"
        hi == IF t[4].type = "op-lt" THEN "$lt" ELSE "$lte"
    IN  /\ pc /= "threw"
        /\ Parsed =>
              /\ filter = Single(t[3].value, OpsVal(<<OpEntry(lo, LitOf(t[1])), OpEntry(hi, LitOf(t[5]))>>))
              /\ insights = <<[key |-> t[3].value, val |-> <<lo, hi>>]>>

ListStart == IF Len(t) >= 2 /\ t[2].type = "bang" THEN 3 ELSE 2

\* the number of places between the braces, separators included, plus one
ListCount == (Len(t) - ListStart) \div 2

ListItem(k) == t[ListStart + 2 * k - 1]

\* f{l1,...,ln} or f!{l1,...,ln}, n >= 1
IsMembership ==
    /\ Len(t) >= ListStart + 2
    /\ (Len(t) - ListStart) % 2 = 0
    /\ t[1].type = "word" /\ t[ListStart].type = "lbrace" /\ t[Len(t)].type = "rbrace"
    /\ \A k \in 1..ListCount :
          /\ IsLiteral(ListItem(k))
          /\ k < ListCount => t[ListStart + 2 * k].type = "comma"

\* f{} or f!{}
IsEmptyMembership ==
    /\ Len(t) = ListStart + 1
    /\ t[1].type = "word" /\ t[ListStart].type = "lbrace" /\ t[Len(t)].type = "rbrace"

MembershipTag == IF ListStart = 3 THEN "$nin" ELSE "$in"

\* C11: f{l1,...,ln} yields {f:{$in:[l1..ln]}} and f!{l1,...,ln} yields
\* {f:{$nin:[l1..ln]}}, the literals in their order, and the tag is recorded for f;
\* f{} and f!{} are rejected with a syntax error.
C11_Membership ==
    /\ IsMembership =>
          /\ pc /= "threw"
          /\ Parsed =>
                /\ filter = Single(t[1].value,
                       OpsVal(<<OpList(MembershipTag, [k \in 1..ListCount |-> LitOf(ListItem(k))])>>))
                /\ insights = <<[key |-> t[1].value, val |-> <<MembershipTag>>]>>
    /\ IsEmptyMembership =>
          /\ pc \in {"parse", "threw"}
          /\ pc = "threw" => err.kind = "SyntaxError"

C11_Witness ==
    /\ pc = "done" /\ IsMembership
    /\ ListStart = 3 /\ ListCount = 2
    /\ ListItem(1).type = "word" /\ ListItem(2).type = "number"
    /\ filter.entries[1].val.ops[1].items = <<LitOf(ListItem(1)), LitOf(ListItem(2))>>

(***************************************************************************)
(* C12                                                                     *)
(***************************************************************************)
\* the number of fields of $exists=f1,...,fn
ExistsCount == (Len(t) - 1) \div 2

ExistsField(k) == t[2 * k + 1].value

\* $exists=f1,...,fn or $!exists=f1,...,fn, n >= 1
IsExistsTerm ==
    /\ Len(t) >= 3 /\ Len(t) % 2 = 1
    /\ t[1].type = "keyword" /\ t[1].value \in {ExistsText, NotExistsText}
    /\ t[2].type = "op-eq"
    /\ \A k \in 1..ExistsCount :
          /\ t[2 * k + 1].type = "word"
          /\ k < ExistsCount => t[2 * k + 2].type = "comma"

\* a keyword other than $exists and $!exists where a Term starts
IsOtherKeywordTerm ==
    /\ Len(t) >= 1
    /\ t[1].type = "keyword" /\ t[1].value \notin {ExistsText, NotExistsText}

ExistsValue == OpsVal(<<OpEntry("$exists", LitBool(t[1].value = ExistsText))>>)

\* C12: $exists=f1,...,fn ($!exists=...) gives every fi the constraint {$exists:true}
\* ({$exists:false}) in one object whose keys are the fi, and records $exists for
\* every fi; any other keyword at the start of a Term is a syntax error.
C12_Exists ==
    /\ IsExistsTerm =>
          /\ pc /= "threw"
          /\ Parsed =>
                /\ filter.kind = "cmp"
                /\ {filter.entries[n].key : n \in 1..Len(filter.entries)}
                      = {ExistsField(k) : k \in 1..ExistsCount}
                /\ \A n \in 1..Len(filter.entries) : filter.entries[n].val = ExistsValue
                /\ {insights[n].key : n \in 1..Len(insights)} = {ExistsField(k) : k \in 1..ExistsCount}
                /\ \A n \in 1..Len(insights) : insights[n].val = <<"$exists">>
    /\ IsOtherKeywordTerm =>
          /\ pc \in {"parse", "threw"}
          /\ pc = "threw" => err.kind = "SyntaxError" /\ err.hasPos /\ err.pos = t[1].pos

C12_Witness ==
    /\ pc = "done" /\ IsExistsTerm
    /\ t[1].value = NotExistsText /\ ExistsCount = 2 /\ ExistsField(1) /= ExistsField(2)
    /\ Len(filter.entries) = 2 /\ filter.entries[2].val = ExistsValue

(***************************************************************************)
(* C14: a leading literal is only the left bound of a Between              *)
(***************************************************************************)
\* token k opens a Term: it is the first token or follows &, ^ or (
IsTermStart(k) == k = 1 \/ t[k - 1].type \in {"and", "or", "lparen"}

\* token k is a number or string literal that no < or <= follows
IsStrayLiteral(k) ==
    /\ t[k].type \in {"number", "string"}
    /\ k < Len(t)
    /\ t[k + 1].type \notin {"op-lt", "op-lte"}

\* C14: a Term that starts with a number or string literal which is followed by a
\* token other than < or <= is never accepted: no parse that consumed such a
\* Term returns a tree, and when the literal is the first token the parse ends in
\* a syntax error raised at the literal itself, whatever follows.
C14_LeadingLiteral ==
    /\ Parsed => \A k \in 1..i : ~(IsTermStart(k) /\ IsStrayLiteral(k))
    /\ (pc /= "parse" /\ t /= <<>> /\ IsStrayLiteral(1)) =>
          /\ pc = "threw"
          /\ err.kind = "SyntaxError"
          /\ err.hasPos /\ err.pos = t[1].pos
          /\ err.hasText /\ err.text = t[1].value

\* 25=age has been parsed and rejected
C14_Witness ==
    /\ pc = "threw"
    /\ Len(t) = 3
    /\ t[1].type = "number" /\ t[2].type = "op-eq" /\ t[3].type = "word"
    /\ err.kind = "SyntaxError"

(***************************************************************************)
(* C15: leftover tokens are a syntax error                                 *)
(***************************************************************************)
\* C15: once the top-level Expression has been parsed, a leftover token makes
\* expectEof fail the whole parse with a syntax error, and a result is returned
\* for a filter expression only when the cursor equals the token count.
C15_LeftoverTokens ==
    /\ [](pc = "done" => i = Len(t))
    /\ [][(pc = "eof" /\ i < Len(t)) => (pc' = "threw" /\ err'.kind = "SyntaxError")]_vars

\* a=1) : the comparison was parsed and the stray ) rejected
C15_Witness ==
    /\ pc = "threw"
    /\ Len(t) = 4 /\ i = 3
    /\ t[1].type = "word" /\ t[2].type = "op-eq" /\ t[3].type = "number" /\ t[4].type = "rparen"
    /\ err = SyntaxErrorPos(t[4])

(***************************************************************************)
(* C19: the shape of a returned tree                                       *)
(***************************************************************************)
LogicalKeys == {<<"$", "a", "n", "d">>, <<"$", "o", "r">>}

\* a Logical node over at least 2 well-shaped nodes, or a non-empty Comparison
\* node without a logical key
RECURSIVE WellShaped(_)
WellShaped(node) ==
    IF node.kind = "cmp"
    THEN /\ node.entries /= <<>>
         /\ node.list = <<>>
         /\ Keys(node) \cap LogicalKeys = {}
    ELSE /\ node.kind \in {"$and", "$or"}
         /\ node.entries = <<>>
         /\ Len(node.list) >= 2
         /\ \A k \in 1..Len(node.list) : WellShaped(node.list[k])

\* C19: every node of a tree returned by a successful parse is a Logical node
\* ($and or $or, nothing else) over at least 2 nodes or a non-empty Comparison
\* node with no $and / $or key; an expression without ^ is not wrapped in $or,
\* one without & is not wrapped in $and.
C19_TreeShape ==
    Parsed =>
        /\ WellShaped(filter)
        /\ ~HasType(t, {"or"}) => filter.kind /= "$or"
        /\ ~HasType(t, {"and"}) => filter.kind /= "$and"

\* a conjunction that keeps a nested disjunction
C19_Witness ==
    /\ pc = "done"
    /\ filter.kind = "$and"
    /\ \E k \in 1..Len(filter.list) : filter.list[k].kind = "$or"
    /\ \E k \in 1..Len(filter.list) : filter.list[k].kind = "cmp"

(***************************************************************************)
(* C20: the union of disjoint operator mappings                            *)
(***************************************************************************)
\* f op X & f op' Y, two comparisons on one field with different operator tags
IsDisjointPair ==
    /\ Len(t) = 7
    /\ t[4].type = "and"
    /\ IsComparison(SubSeq(t, 1, 3)) /\ IsComparison(SubSeq(t, 5, 7))
    /\ t[1].value = t[5].value
    /\ opMap(t[2].type) /= opMap(t[6].type)

\* the operator -> value mapping of a field's value; a bare literal is $eq -> literal
AsOps(val) == IF val.prim THEN <<OpEntry("$eq", val.lit)>> ELSE val.ops

\* C20: when two sibling comparisons set the same field with disjoint operator
\* tags, the field's entry is exactly the union of the two operator -> value
\* mappings, a bare literal on either side contributing $eq -> literal, and no
\* other key is created.
C20_DisjointUnion ==
    (pc = "done" /\ IsDisjointPair) =>
        filter = Single(t[1].value,
                        OpsVal(AsOps(NodeOf(SubSeq(t, 1, 3)).entries[1].val)
                               \o AsOps(NodeOf(SubSeq(t, 5, 7)).entries[1].val)))

(***************************************************************************)
(* C13: literal typing                                                     *)
(***************************************************************************)
\* parseUrlql has returned or thrown
Ended == pc \in {"threw", "returned"}

\* the query is a=lit
IsLiteralQuery == Len(raw) >= 3 /\ raw[1] = "a" /\ raw[2] = "="

Rhs == SubSeq(raw, 3, Len(raw))

IsDigitString(s) == s /= <<>> /\ \A k \in 1..Len(s) : s[k] \in DigitChars

\* digits, or digits . digits
IsUnsignedNumeral(s) ==
    \/ IsDigitString(s)
    \/ \E k \in 2..(Len(s) - 1) :
          /\ s[k] = "."
          /\ IsDigitString(SubSeq(s, 1, k - 1))
          /\ IsDigitString(SubSeq(s, k + 1, Len(s)))

\* a bare integer or decimal, with an optional sign
IsNumeral(s) ==
    /\ s /= <<>>
    /\ IsUnsignedNumeral(IF s[1] = "-" THEN Tail(s) ELSE s)

\* a digit string with a leading zero followed by another digit
IsLeadingZeroDigits(s) == IsDigitString(s) /\ Len(s) >= 2 /\ s[1] = "0"

\* a single-quoted text without quotes or backslashes inside
IsQuoted(s) ==
    /\ Len(s) >= 2 /\ s[1] = "'" /\ s[Len(s)] = "'"
    /\ \A k \in 2..(Len(s) - 1) : s[k] \notin {"'", "\\"}

IsTypedLiteral(s) ==
    \/ IsNumeral(s)
    \/ IsQuoted(s)
    \/ s \in {<<"t", "r", "u", "e">>, <<"f", "a", "l", "s", "e">>, <<"n", "u", "l", "l">>}

\* the value the typing rules give to a literal text
TypedValue(s) ==
    IF IsLeadingZeroDigits(s) THEN LitString(s)
    ELSE IF IsNumeral(s) THEN Number(s)
    ELSE IF IsQuoted(s) THEN LitString(SubSeq(s, 2, Len(s) - 1))
    ELSE IF s = <<"n", "u", "l", "l">> THEN LitNull
    ELSE LitBool(s = <<"t", "r", "u", "e">>)

\* C13: in a=lit, a digit string with a leading zero followed by another digit
\* is the string with the same text, any other bare integer or decimal is a
\* number, true / false are booleans, null is null, and a single-quoted text is
\* the string of its contents: the query is accepted with exactly that value.
C13_LiteralTyping ==
    (Ended /\ IsLiteralQuery /\ IsTypedLiteral(Rhs)) =>
        /\ pc = "returned"
        /\ filter = Single(<<"a">>, PrimVal(TypedValue(Rhs)))

(***************************************************************************)
(* C18: whitespace                                                         *)
(***************************************************************************)
\* the scan position of lex holds a whitespace character
AtWhitespace == pc = "lex" /\ rawExpr[idx + 1] \in Whitespace

\* C18: a whitespace character at the scan position is consumed without a token
\* being emitted and without a lexical error, and no token of kind ws is ever in
\* the output sequence.
C18_WhitespaceDiscarded ==
    /\ [](\A k \in 1..Len(t) : t[k].type /= "ws")
    /\ [][AtWhitespace => (pc' /= "threw" /\ t' = t /\ idx' > idx)]_vars

(***************************************************************************)
(* C16: custom controls                                                    *)
(***************************************************************************)
ReservedKeys == {SelectKey, SortKey, OrderKey, LimitKey, TopKey, SkipKey, CountKey}

\* the top-level segments of the query text
RawParts == split(raw, "&")

\* the text before the first = and the text after it
SegmentKey(p) == split(p, "=")[1]

SegmentValue(p) == SubSeq(p, Len(SegmentKey(p)) + 2, Len(p))

\* $key=value with a key that is neither reserved nor $exists / $!exists
IsCustomSegment(p) ==
    /\ Len(SegmentKey(p)) >= 2 /\ Len(SegmentKey(p)) < Len(p)
    /\ p[1] = "$"
    /\ \A k \in 2..Len(SegmentKey(p)) : p[k] \in KeywordChars \cup {"!"}
    /\ SegmentKey(p) \notin ReservedKeys \cup {ExistsText, NotExistsText}

\* C16: a segment $key=value with a key outside the reserved control keywords
\* never causes an error, is passed through verbatim as controls[$key] = value
\* (the text after the first =), and adds nothing to filter or insights.
C16_CustomControl ==
    /\ (Ended /\ \A k \in 1..Len(RawParts) : IsCustomSegment(RawParts[k])) =>
          /\ pc = "returned"
          /\ filter = EmptyObject
          /\ insights = <<>>
    /\ pc = "returned" =>
          \A k \in 1..Len(RawParts) :
              (/\ IsCustomSegment(RawParts[k])
               /\ \A m \in (k + 1)..Len(RawParts) : SegmentKey(RawParts[m]) /= SegmentKey(RawParts[k])) =>
                  /\ HasKey(controls, SegmentKey(RawParts[k]))
                  /\ Get(controls, SegmentKey(RawParts[k])) = CtlText(SegmentValue(RawParts[k]))

(***************************************************************************)
(* C17: the $select and $order insights                                    *)
(***************************************************************************)
\* the fields a segment lists after its =, URL-decoded, without a leading -
ListedFields(p) ==
    LET fields == split(decodeURIComponent(SegmentValue(p)).text, ",")
    IN  {stripMinus(fields[k]) : k \in {n \in 1..Len(fields) : fields[n] /= <<>>}}

IsListSegment(p, keys) == SegmentKey(p) \in keys /\ Len(SegmentKey(p)) < Len(p)

\* C17: in the returned result every field listed in a $select segment has the
\* insight $select and every field listed in a $order / $sort segment has the
\* insight $order, with or without a filter expression, and neither tag is a key
\* of the filter tree.
C17_ControlInsights ==
    pc = "returned" =>
        /\ \A k \in 1..Len(RawParts) :
              /\ IsListSegment(RawParts[k], {SelectKey}) =>
                    \A f \in ListedFields(RawParts[k]) : InsightsHas(f, "$select")
              /\ IsListSegment(RawParts[k], {OrderKey, SortKey}) =>
                    \A f \in ListedFields(RawParts[k]) : InsightsHas(f, "$order")
        /\ \A c \in TreeConstraints(filter) :
              c[1] \notin {SelectKey, OrderKey} /\ c[2] \notin {"$select", "$order"}

(***************************************************************************)
(* C21: logical siblings in mergeConjunction                               *)
(***************************************************************************)
LParens == {k \in 1..Len(t) : t[k].type = "lparen"}

RParens == {k \in 1..Len(t) : t[k].type = "rparen"}

GroupStart == CHOOSE k \in LParens : TRUE

GroupEnd == CHOOSE k \in RParens : TRUE

GroupNode == NodeOf(SubSeq(t, GroupStart, GroupEnd))

\* the terms before the group and the terms after it
TermsBefore == IF GroupStart = 1 THEN <<>> ELSE SplitAt(SubSeq(t, 1, GroupStart - 2), "and")

TermsAfter == IF GroupEnd = Len(t) THEN <<>> ELSE SplitAt(SubSeq(t, GroupEnd + 2, Len(t)), "and")

Outside == TermsBefore \o TermsAfter

\* a conjunction of atomic terms and one parenthesised group that is a Logical node
IsConjunctionWithGroup ==
    /\ Cardinality(LParens) = 1 /\ Cardinality(RParens) = 1
    /\ GroupStart < GroupEnd
    /\ GroupStart = 1 \/ (GroupStart >= 3 /\ t[GroupStart - 1].type = "and")
    /\ GroupEnd = Len(t) \/ (GroupEnd <= Len(t) - 2 /\ t[GroupEnd + 1].type = "and")
    /\ Outside /= <<>>
    /\ \A k \in 1..Len(Outside) : IsAtomicTerm(Outside[k])
    /\ ParseAlone(SubSeq(t, GroupStart, GroupEnd)).ok
    /\ GroupNode.kind \in {"$and", "$or"}

\* two outside terms, the second one in conflict with the first: same field, a
\* shared operator tag other than the implicit equality
IsOutsideConflict ==
    /\ Len(Outside) = 2
    /\ \E e1 \in TreeConstraints(NodeOf(Outside[1])) :
       \E e2 \in TreeConstraints(NodeOf(Outside[2])) :
           e1[1] = e2[1] /\ e1[2] = e2[2] /\ e1[2] /= "$eq"

WholeParse == parseExpression(NewParser(t))

CursorTrail == WholeParse.p.trail

\* the places of a trail where the cursor went back
RewindsOf(trail) == {k \in 2..Len(trail) : trail[k] < trail[k - 1]}

Rewinds == RewindsOf(CursorTrail)

\* the cursor of the parse r moves forward one token at a time; it goes back at
\* most once, by exactly two tokens, to a literal that opens a Term, and then
\* the parse fails on the next consume
TrailBounded(r) ==
    LET trail == r.p.trail
        back  == RewindsOf(trail)
    IN  /\ \A k \in 2..Len(trail) : k \notin back => trail[k] = trail[k - 1] + 1
        /\ Cardinality(back) <= 1
        /\ \A k \in back :
              /\ trail[k] = trail[k - 1] - 2
              /\ IsTermStart(trail[k] + 1)
              /\ t[trail[k] + 1].type \in {"number", "string"}
              /\ Thrown(r)
              /\ Len(trail) = k + 1
        /\ Len(trail) <= Len(t) + 3 + 3 * Cardinality(back)

CursorBounded == TrailBounded(WholeParse)

\* C22: for every input lex and the parse end with a result or an error: each
\* lexer iteration advances the scan index by at least one character or throws,
\* and the parser cursor only moves forward, except for the one Between rewind
\* of exactly two tokens back to the start of the current Term, after which
\* that Term consumes no further token successfully.
C22_Termination ==
    /\ <>Ended
    /\ [][pc = "lex" => (pc' = "threw" \/ idx' > idx)]_vars
    /\ [](pc = "parse" => CursorBounded)

\* a leading literal was rewound to and the parse ended with an error
C22_Witness ==
    /\ pc = "threw"
    /\ t /= <<>> /\ idx = Len(rawExpr)
    /\ Rewinds /= {}
    /\ err.kind = "SyntaxError"
====
